---- MODULE Spec2Model ----
\* Attendance pipeline of the attendease backend: AttendanceService
\* (createSession, markAttendance, updateAttendanceRecord, deleteSession,
\* and the read paths getSessionStudents, getStudentAttendanceStats and
\* getStudentAttendanceSummary) running as concurrent requests over the
\* attendance_sessions, attendance_records and attendance_edits tables.
\*
\* Every request is a process that advances one await at a time.  Statements
\* inside prisma.$transaction are buffered in the request and reach the tables
\* at commit; row locks taken by a buffered statement block conflicting
\* statements of other transactions (PostgreSQL, READ COMMITTED, which is
\* what $transaction uses when no isolationLevel is passed).
EXTENDS Integers, Sequences, FiniteSets, TLC

\* ---------------------------------------------------------------- bounds
MaxCalls    == 3        \* requests started in one behaviour
MaxPayload  == 2        \* length of data.records in one markAttendance call
MaxTerm     == 20       \* sessions an enrollment has held when statistics are read
MaxHistory  == 3        \* sessions an enrollment has held when a request is followed
                        \* through its notification fan-out

\* ---------------------------------------------------------------- fixtures
Procs == {"p1", "p2"}

\* users that call the service; "u9" has no teacher profile
Users == {"u1", "u2", "u9"}

\* teacher.findUnique({ where: { userId } })
TeacherOf(user) ==
    CASE user = "u1" -> "t1"
      [] user = "u2" -> "t2"
      [] OTHER       -> "none"

\* teachers rows
Teachers == {"t1", "t2"}

\* subject_enrollments rows: both enrollments teach batch b1
EnrollmentIds == {"e1", "e2"}

\* an enrollment of teacher t1 for batch b3, to which no student has been
\* assigned yet; it has a session only where one is seeded
NewBatchEnrollment == "e3"
EnrollmentBatch(e) == IF e = NewBatchEnrollment THEN "b3" ELSE "b1"

\* students rows and their batchId
Students == {"s1", "s2", "s3"}
StudentBatch(s) == IF s = "s3" THEN "b2" ELSE "b1"

StartTimes   == {"09:00:00", "10:00:00"}
TheDate      == "2025-10-22"
Statuses     == {"PRESENT", "ABSENT", "LATE", "EXCUSED"}
MarkStatuses == {"PRESENT", "ABSENT"}
EditStatuses == {"ABSENT", "LATE"}
NoReasonGiven == "none"
Reasons      == {NoReasonGiven, "medical certificate"}
DefaultReason == "No reason provided"

VARIABLES sessions, records, edits, nextSessionId, nextRecordId, nextEditId,
          proc, snap, calls, enrollments, log

store == <<sessions, records, edits>>
ids   == <<nextSessionId, nextRecordId, nextEditId>>
hist  == <<snap, calls, enrollments, log>>
vars  == <<sessions, records, edits, nextSessionId, nextRecordId, nextEditId,
           proc, snap, calls, enrollments, log>>

\* subject_enrollments.teacherId, the column updateEnrollment rewrites
EnrollmentTeacher(e) == enrollments[e]

\* ---------------------------------------------------------------- requests
\* no AttendanceStatsDTO computed yet
NoStats ==
    [totalSessions |-> 0, present |-> 0, absent |-> 0, late |-> 0,
     excused |-> 0, percentage |-> 0, status |-> "none"]

\* no overall figures computed yet
NoOverall ==
    [totalSessions |-> 0, totalPresent |-> 0, averagePercentage |-> 0,
     status |-> "none"]

Idle ==
    [pc |-> "idle", op |-> "none", user |-> "none", enr |-> "none",
     start |-> "none", sid |-> 0, payload |-> <<>>, rid |-> 0,
     status |-> "none", reason |-> "none", batch |-> "none", i |-> 0,
     found |-> FALSE, buf |-> <<>>, old |-> "none", result |-> "none",
     seq |-> FALSE, rep |-> FALSE,
     fan |-> FALSE, out |-> <<>>, stu |-> "none", seen |-> {}, k |-> 0,
     stats |-> NoStats, fault |-> FALSE, newt |-> "none", io |-> TRUE,
     view |-> {}, subjects |-> <<>>, overall |-> NoOverall]

\* the request returns (or throws) res; its locals are dropped
Return(p, res) ==
    proc' = [proc EXCEPT ![p] =
                [@ EXCEPT !.pc = "done", !.result = res, !.batch = "none",
                          !.i = 0, !.found = FALSE, !.buf = <<>>,
                          !.old = "none", !.seen = {}, !.k = 0]]

Goto(p, label) == proc' = [proc EXCEPT ![p].pc = label]

\* a request enters the service: teacher.findUnique, NotFound without profile
Enter(p, call, label) ==
    IF TeacherOf(call.user) = "none"
    THEN proc' = [proc EXCEPT ![p] = [call EXCEPT !.pc = "done", !.result = "NotFound"]]
    ELSE proc' = [proc EXCEPT ![p] = [call EXCEPT !.pc = label]]

\* the start of a request: the call budget, and the tables as the request
\* found them when requests run one at a time
Begin(seq) ==
    /\ calls < MaxCalls
    /\ calls' = calls + 1
    /\ snap' = IF seq THEN <<sessions, records, edits>> ELSE snap
    /\ UNCHANGED <<enrollments, log>>

\* ---------------------------------------------------------------- tables
SessionById(sid) == {s \in sessions : s.id = sid}
RecordById(rid) == {r \in records : r.id = rid}
RecordByKey(recs, sid, stu) == {r \in recs : r.sessionId = sid /\ r.studentId = stu}

\* row locks of the open transactions of the other requests
WritesOn(q, sid) ==
    IF proc[q].op = "markAttendance" /\ proc[q].sid = sid
    THEN {proc[q].buf[k].studentId : k \in 1..Len(proc[q].buf)}
    ELSE {}

KeyLockedByOther(p, sid, stu) ==
    \E q \in Procs \ {p} : stu \in WritesOn(q, sid)

SessionPinnedByOther(p, sid) ==
    \E q \in Procs \ {p} :
        \/ WritesOn(q, sid) # {}
        \/ proc[q].op = "updateAttendanceRecord" /\ proc[q].pc = "ua_update"
           /\ proc[q].sid = sid

\* a statistics request is between its first query and its answer
ReadOpen ==
    \E q \in Procs : /\ proc[q].op = "getStudentAttendanceStats"
                     /\ proc[q].pc \notin {"idle", "done"}

\* the committed states of attendance_sessions and attendance_records that
\* have existed since the open statistics request began, sess and recs being
\* the newest
Committed(sess, recs) ==
    IF ReadOpen THEN log \cup {<<sess, recs>>} ELSE log

Init ==
    /\ sessions = {}
    /\ records = {}
    /\ edits = {}
    /\ nextSessionId = 1
    /\ nextRecordId = 1
    /\ nextEditId = 1
    /\ proc = [p \in Procs |-> Idle]
    /\ snap = <<{}, {}, {}>>
    /\ calls = 0
    /\ enrollments = [e \in EnrollmentIds |-> IF e = "e1" THEN "t1" ELSE "t2"]
    /\ log = {}

\* ---------------------------------------------------------------- inputs
\* Requests that run one at a time (seq) draw their arguments from the wide
\* sets: every user, unknown ids, students outside the batch.  Concurrent
\* requests are those of the owning teacher u1 on enrollment e1, so that the
\* interleavings of their statements are what is explored.
UsersFor(seq) == IF seq THEN Users ELSE {"u1"}
EnrollmentsFor(seq) == IF seq THEN EnrollmentIds \cup {"e0"} ELSE {"e1"}
SessionIdsFor(seq) == {s.id : s \in sessions} \cup (IF seq THEN {0} ELSE {})
RecordIdsFor(seq) == {r.id : r \in records} \cup (IF seq THEN {0} ELSE {})
ReasonsFor(seq) == IF seq THEN Reasons ELSE {NoReasonGiven}

PayloadEntries == [studentId : Students, status : MarkStatuses]

SeqsUpTo(S, n) == UNION {[1..k -> S] : k \in 1..n}

\* data.records: at least one entry (markAttendanceSchema)
Payloads == SeqsUpTo(PayloadEntries, MaxPayload)

PayloadsFor(seq) ==
    IF seq THEN Payloads
    ELSE {pl \in Payloads :
            /\ \A k \in 1..Len(pl) : StudentBatch(pl[k].studentId) = "b1"
            /\ \A j, k \in 1..Len(pl) : pl[j].studentId = pl[k].studentId => j = k}

PayloadStudents(payload) == {payload[k].studentId : k \in 1..Len(payload)}

\* ---------------------------------------------------------------- statistics
\* attendanceSession.findMany({ where: { subjectEnrollmentId }, select: { id } })
EnrollmentSessionIds(sess, enr) == {x.id : x \in {y \in sess : y.subjectEnrollmentId = enr}}

\* attendanceRecord.findMany({ where: { studentId, sessionId: { in: ids } } })
StudentRecords(recs, stu, sids) ==
    {r \in recs : r.studentId = stu /\ r.sessionId \in sids}

\* records.filter((r) => r.status === st).length
CountStatus(recs, st) == Cardinality({r \in recs : r.status = st})

\* Math.round(percentage * 100) / 100 of (attended / total) * 100, held in
\* hundredths of a percent: 6667 is 66.67
Round2(attended, total) == (2 * attended * 10000 + total) \div (2 * total)

\* faulty variant: the lower threshold compared with <=
BandInclusive(attended, total) ==
    IF attended * 100 <= 65 * total THEN "CRITICAL"
    ELSE IF attended * 100 < 75 * total THEN "WARNING"
    ELSE "GOOD"

\* the status chain on percentage = (attended / total) * 100, unrounded
Band(attended, total) ==
    IF attended * 100 < 65 * total THEN "CRITICAL"
    ELSE IF attended * 100 < 75 * total THEN "WARNING"
    ELSE "GOOD"

\* the early return for an enrollment without sessions
NoSessionsStats ==
    [totalSessions |-> 0, present |-> 0, absent |-> 0, late |-> 0,
     excused |-> 0, percentage |-> 0, status |-> "GOOD"]

\* faulty variant: EXCUSED left out of attendedCount
AttendedWithoutExcused(present, late, excused) == present + late

\* attendedCount = stats.present + stats.late + stats.excused
Attended(present, late, excused) == present + late + excused

Max(a, b) == IF a >= b THEN a ELSE b

\* faulty variant: the percentage is taken over the sessions that have a record
ComputeStatsOverMarked(total, recs) ==
    LET present  == CountStatus(recs, "PRESENT")
        absent   == CountStatus(recs, "ABSENT")
        late     == CountStatus(recs, "LATE")
        excused  == CountStatus(recs, "EXCUSED")
        attended == Attended(present, late, excused)
        marked   == Max(Cardinality(recs), 1)
    IN  [totalSessions |-> total, present |-> present, absent |-> absent,
         late |-> late, excused |-> excused,
         percentage |-> Round2(attended, marked),
         status |-> Band(attended, marked)]

\* the AttendanceStatsDTO built from the session count and the student's records
ComputeStats(total, recs) ==
    LET present  == CountStatus(recs, "PRESENT")
        absent   == CountStatus(recs, "ABSENT")
        late     == CountStatus(recs, "LATE")
        excused  == CountStatus(recs, "EXCUSED")
        attended == Attended(present, late, excused)
    IN  [totalSessions |-> total, present |-> present, absent |-> absent,
         late |-> late, excused |-> excused,
         percentage |-> Round2(attended, total),
         status |-> Band(attended, total)]

\* getStudentAttendanceStats on one view of the tables
StudentStats(sess, recs, stu, enr) ==
    LET sids == EnrollmentSessionIds(sess, enr)
    IN  IF sids = {} THEN NoSessionsStats
        ELSE ComputeStats(Cardinality(sids), StudentRecords(recs, stu, sids))

\* Math.ceil(n / d) for d > 0
Ceil(n, d) == -((-n) \div d)

\* faulty variant: divides by requiredPercentage instead of 1 - requiredPercentage
SessionsNeededByRequired(total, attended) ==
    Max(Ceil(75 * total - 100 * attended, 75), 1)

\* Math.max(Math.ceil((0.75 * totalSessions - attendedCount) / (1 - 0.75)), 1),
\* numerator and denominator in hundredths
SessionsNeeded(total, attended) ==
    Max(Ceil(75 * total - 100 * attended, 100 - 75), 1)

\* ---------------------------------------------------------------- events
\* students.userId, the name of the student's personal room
StudentUser(stu) ==
    CASE stu = "s1" -> "us1"
      [] stu = "s2" -> "us2"
      [] OTHER      -> "us3"

\* the order in which student.findMany returns the students
BatchOrder == <<"s1", "s2", "s3">>

NoEvent ==
    [type |-> "none", room |-> <<"none", "none">>, sid |-> 0, rid |-> 0,
     status |-> "none", pct |-> 0, needed |-> 0, total |-> 0, marked |-> 0,
     present |-> 0, absent |-> 0, old |-> "none", by |-> "none"]

\* WebSocketService.emitSessionCreated
SessionCreatedEvent(enr, sid) ==
    [NoEvent EXCEPT !.type = "SESSION_CREATED", !.room = <<"enrollment", enr>>,
                    !.sid = sid]

\* WebSocketService.emitAttendanceMarked
AttendanceMarkedEvent(batch, sid, marked) ==
    [NoEvent EXCEPT !.type = "ATTENDANCE_MARKED", !.room = <<"batch", batch>>,
                    !.sid = sid, !.marked = marked]

\* createdRecords.filter(...).length: one result per entry of data.records
CountEntries(payload, sts) ==
    Cardinality({k \in 1..Len(payload) : payload[k].status \in sts})

\* WebSocketService.emitLiveSessionStatus
LiveSessionStatusEvent(enr, sid, batch, payload) ==
    [NoEvent EXCEPT !.type = "LIVE_SESSION_STATUS", !.room = <<"enrollment", enr>>,
                    !.sid = sid,
                    !.total = Cardinality({x \in Students : StudentBatch(x) = batch}),
                    !.marked = Len(payload),
                    !.present = CountEntries(payload, {"PRESENT", "LATE"}),
                    !.absent = CountEntries(payload, {"ABSENT"})]

\* WebSocketService.emitAttendanceEdited
AttendanceEditedEvent(stu, rid, sid, old, new, user) ==
    [NoEvent EXCEPT !.type = "ATTENDANCE_EDITED",
                    !.room = <<"user", StudentUser(stu)>>, !.rid = rid,
                    !.sid = sid, !.old = old, !.status = new, !.by = user]

\* WebSocketService.emitAttendanceUpdated
AttendanceUpdatedEvent(stu, stats) ==
    [NoEvent EXCEPT !.type = "ATTENDANCE_UPDATED",
                    !.room = <<"user", StudentUser(stu)>>,
                    !.pct = stats.percentage, !.status = stats.status,
                    !.total = stats.totalSessions]

\* WebSocketService.emitLowAttendanceAlert
LowAttendanceAlertEvent(stu, stats) ==
    [NoEvent EXCEPT !.type = "LOW_ATTENDANCE_ALERT",
                    !.room = <<"user", StudentUser(stu)>>,
                    !.pct = stats.percentage, !.status = stats.status,
                    !.needed = SessionsNeeded(stats.totalSessions,
                                   Attended(stats.present, stats.late, stats.excused))]

\* faulty variant: the alert is sent for CRITICAL only
AlertOnCriticalOnly(status) == status = "CRITICAL"

\* stats.status === "WARNING" || stats.status === "CRITICAL"
NeedsAlert(status) == status = "WARNING" \/ status = "CRITICAL"

\* what one student is sent once the statistics are there
StudentEvents(stu, stats) ==
    <<AttendanceUpdatedEvent(stu, stats)>>
        \o (IF NeedsAlert(stats.status) THEN <<LowAttendanceAlertEvent(stu, stats)>>
            ELSE <<>>)

\* faulty variant: a failed publish is taken for a published one
PublishedAnyway(p, events) == proc[p].out \o events

\* the emit helpers of WebSocketService: getIO() throws while the socket
\* server is not up; the helper catches, logs and publishes nothing
Published(p, events) ==
    IF proc[p].io THEN proc[p].out \o events ELSE proc[p].out

\* batchStudentIds.filter((s) => markedStudentIds.has(s.id))
MarkedStudents(payload, batch) ==
    LET Marked(x) == StudentBatch(x) = batch /\ x \in PayloadStudents(payload)
    IN  SelectSeq(BatchOrder, Marked)

\* ---------------------------------------------------------------- createSession
\* faulty variant: the duplicate check without startTime
SessionOnSameDay(sess, enr, date, start) ==
    {s \in sess : s.subjectEnrollmentId = enr /\ s.date = date}

\* attendanceSession.findFirst({ where: { subjectEnrollmentId, date, startTime } })
ExistingSession(sess, enr, date, start) ==
    {s \in sess : s.subjectEnrollmentId = enr /\ s.date = date /\ s.startTime = start}

CreateSessionCall(p, seq) ==
    /\ proc[p].pc = "idle"
    /\ \E user \in UsersFor(seq), enr \in EnrollmentsFor(seq), st \in StartTimes :
          Enter(p, [Idle EXCEPT !.op = "createSession", !.user = user,
                                !.enr = enr, !.start = st], "cs_enrollment")
    /\ Begin(seq)
    /\ UNCHANGED <<store, ids>>

\* subjectEnrollment.findUnique and the ownership check
CsEnrollment(p) ==
    /\ proc[p].pc = "cs_enrollment"
    /\ IF proc[p].enr \notin EnrollmentIds
       THEN Return(p, "NotFound")
       ELSE IF EnrollmentTeacher(proc[p].enr) # TeacherOf(proc[p].user)
            THEN Return(p, "Forbidden")
            ELSE Goto(p, "cs_find")
    /\ UNCHANGED <<store, ids, hist>>

\* the duplicate check
CsFind(p) ==
    /\ proc[p].pc = "cs_find"
    /\ IF ExistingSession(sessions, proc[p].enr, TheDate, proc[p].start) # {}
       THEN Return(p, "BadRequest")
       ELSE Goto(p, "cs_create")
    /\ UNCHANGED <<store, ids, hist>>

\* attendanceSession.create
CsCreate(p) ==
    /\ proc[p].pc = "cs_create"
    /\ sessions' = sessions \cup
          {[id |-> nextSessionId, subjectEnrollmentId |-> proc[p].enr,
            teacherId |-> TeacherOf(proc[p].user), date |-> TheDate,
            startTime |-> proc[p].start]}
    /\ nextSessionId' = nextSessionId + 1
    /\ proc' = [proc EXCEPT ![p] =
          [@ EXCEPT !.pc = IF proc[p].fan THEN "cs_emit" ELSE "done",
                    !.result = "OK", !.sid = nextSessionId]]
    /\ log' = Committed(sessions', records)
    /\ UNCHANGED <<records, edits, nextRecordId, nextEditId, snap, calls, enrollments>>

\* the continuation after the create: emitSessionCreated, then the return
CsEmit(p) ==
    /\ proc[p].pc = "cs_emit"
    /\ proc' = [proc EXCEPT ![p] =
          [@ EXCEPT !.pc = "done",
                    !.out = Published(p, <<SessionCreatedEvent(proc[p].enr, proc[p].sid)>>)]]
    /\ UNCHANGED <<store, ids, hist>>

\* ---------------------------------------------------------------- markAttendance
\* student.findMany({ where: { batchId } })
BatchStudentIds(batch) == {s \in Students : StudentBatch(s) = batch}

\* faulty variant: only the first entry is checked
FirstEntryInvalid(payload, valid) == payload[1].studentId \notin valid

\* the loop over data.records: TRUE when some entry is not in the batch
HasInvalidStudent(payload, valid) ==
    \E k \in 1..Len(payload) : payload[k].studentId \notin valid

\* faulty variant: a plain insert that never looks for the existing row
UpsertAlwaysInsert(recs, next, sid, w) ==
    [records |-> recs \cup {[id |-> next, sessionId |-> sid,
                             studentId |-> w.studentId, status |-> w.status]},
     next |-> next + 1]

\* faulty variant: the session's rows are replaced by the row written
UpsertReplacingSession(recs, next, sid, w) ==
    [records |-> {r \in recs : r.sessionId # sid}
                    \cup {[id |-> next, sessionId |-> sid,
                           studentId |-> w.studentId, status |-> w.status]},
     next |-> next + 1]

\* attendanceRecord.upsert on the unique key (sessionId, studentId):
\* update the row in place when it exists, insert a fresh row otherwise
Upsert(recs, next, sid, w) ==
    IF RecordByKey(recs, sid, w.studentId) # {}
    THEN [records |-> {IF r.sessionId = sid /\ r.studentId = w.studentId
                       THEN [r EXCEPT !.status = w.status] ELSE r : r \in recs},
          next |-> next]
    ELSE [records |-> recs \cup {[id |-> next, sessionId |-> sid,
                                  studentId |-> w.studentId, status |-> w.status]},
          next |-> next + 1]

\* faulty variant: only the first upsert of the array is executed
ApplyFirstWrite(recs, next, sid, writes) ==
    Upsert(recs, next, sid, Head(writes))

RECURSIVE ApplyWrites(_, _, _, _)
ApplyWrites(recs, next, sid, writes) ==
    IF writes = <<>>
    THEN [records |-> recs, next |-> next]
    ELSE LET one == Upsert(recs, next, sid, Head(writes))
         IN  ApplyWrites(one.records, one.next, sid, Tail(writes))

\* faulty variant: statements outside a transaction, visible as they run
WriteThrough(committed, written) == written

\* what the other requests read while a transaction is open: the committed
\* rows, not the rows the open transaction has written so far
Uncommitted(committed, written) == committed

MarkAttendanceCall(p, seq) ==
    /\ proc[p].pc = "idle"
    /\ \E user \in UsersFor(seq), sid \in SessionIdsFor(seq) :
          Enter(p, [Idle EXCEPT !.op = "markAttendance", !.user = user,
                                !.sid = sid, !.seq = seq], "ma_session")
    /\ Begin(seq)
    /\ UNCHANGED <<store, ids>>

\* the client sends the markAttendance request it has just had answered
\* with success once more, unchanged
RepeatMark(p) ==
    /\ proc[p].pc = "done"
    /\ proc[p].op = "markAttendance"
    /\ proc[p].result = "OK"
    /\ ~proc[p].rep
    /\ Begin(TRUE)
    /\ proc' = [proc EXCEPT ![p] =
          [Idle EXCEPT !.op = "markAttendance", !.user = proc[p].user,
                       !.sid = proc[p].sid, !.payload = proc[p].payload,
                       !.seq = TRUE, !.rep = TRUE, !.pc = "ma_session"]]
    /\ UNCHANGED <<store, ids>>

\* attendanceSession.findUnique and the ownership check
MaSession(p) ==
    /\ proc[p].pc = "ma_session"
    /\ IF SessionById(proc[p].sid) = {}
       THEN Return(p, "NotFound")
       ELSE LET session == CHOOSE s \in SessionById(proc[p].sid) : TRUE
            IN  IF session.teacherId # TeacherOf(proc[p].user)
                THEN Return(p, "Forbidden")
                ELSE proc' = [proc EXCEPT ![p] =
                        [@ EXCEPT !.pc = "ma_students",
                                  !.enr = session.subjectEnrollmentId,
                                  !.batch = EnrollmentBatch(session.subjectEnrollmentId)]]
    /\ UNCHANGED <<store, ids, hist>>

\* student.findMany and the membership loop, the first reader of data.records:
\* the payload of the request is drawn here
MaStudents(p) ==
    /\ proc[p].pc = "ma_students"
    /\ \E payload \in (IF proc[p].rep THEN {proc[p].payload}
                        ELSE PayloadsFor(proc[p].seq)) :
          IF HasInvalidStudent(payload, BatchStudentIds(proc[p].batch))
          THEN proc' = [proc EXCEPT ![p] =
                  [@ EXCEPT !.pc = "done", !.result = "BadRequest",
                            !.payload = payload, !.batch = "none"]]
          ELSE proc' = [proc EXCEPT ![p] =
                  [@ EXCEPT !.pc = "ma_select", !.i = 1, !.payload = payload]]
    /\ UNCHANGED <<store, ids, hist>>

OwnWrite(p, stu) == \E k \in 1..Len(proc[p].buf) : proc[p].buf[k].studentId = stu

\* upsert number i, first half: look the row up by its unique key
MaSelect(p) ==
    /\ proc[p].pc = "ma_select"
    /\ LET stu == proc[p].payload[proc[p].i].studentId
       IN  proc' = [proc EXCEPT ![p] =
              [@ EXCEPT !.pc = "ma_write",
                        !.found = \/ RecordByKey(records, proc[p].sid, stu) # {}
                                  \/ OwnWrite(p, stu)]]
    /\ UNCHANGED <<store, ids, hist>>

\* upsert number i, second half: UPDATE the row found, or INSERT; the last
\* upsert is followed by the commit of the whole array
MaWrite(p) ==
    /\ proc[p].pc = "ma_write"
    /\ LET w      == proc[p].payload[proc[p].i]
           sid    == proc[p].sid
           exists == RecordByKey(records, sid, w.studentId) # {} \/ OwnWrite(p, w.studentId)
           buf    == Append(proc[p].buf, w)
           done   == ApplyWrites(records, nextRecordId, sid, buf)
       IN  /\ ~KeyLockedByOther(p, sid, w.studentId)
           /\ IF \/ proc[p].found /\ ~exists
                 \/ ~proc[p].found /\ exists
                 \/ ~proc[p].found /\ SessionById(sid) = {}
              THEN /\ Return(p, "Internal")
                   /\ UNCHANGED <<records, nextRecordId>>
              ELSE IF proc[p].i = Len(proc[p].payload)
                   THEN /\ records' = done.records
                        /\ nextRecordId' = done.next
                        /\ IF proc[p].fan
                           THEN proc' = [proc EXCEPT ![p] =
                                   [@ EXCEPT !.pc = "ma_emit", !.result = "OK",
                                             !.buf = <<>>, !.found = FALSE, !.i = 0]]
                           ELSE Return(p, "OK")
                   ELSE /\ records' = Uncommitted(records, done.records)
                        /\ nextRecordId' = nextRecordId
                        /\ proc' = [proc EXCEPT ![p] =
                              [@ EXCEPT !.pc = "ma_select", !.i = @ + 1, !.buf = buf]]
    /\ log' = Committed(sessions, records')
    /\ UNCHANGED <<sessions, edits, nextSessionId, nextEditId, snap, calls, enrollments>>

\* ---------------------------------------------------------------- updateAttendanceRecord
\* data.reason || "No reason provided"
ReasonOrDefault(reason) == IF reason = NoReasonGiven THEN DefaultReason ELSE reason

\* faulty variant: oldStatus and newStatus exchanged
EditRowSwapped(id, rid, sid, user, old, new, reason) ==
    [id |-> id, recordId |-> rid, sessionId |-> sid, editedBy |-> user,
     oldStatus |-> new, newStatus |-> old, reason |-> ReasonOrDefault(reason)]

\* the row of tx.attendanceEdit.create
EditRow(id, rid, sid, user, old, new, reason) ==
    [id |-> id, recordId |-> rid, sessionId |-> sid, editedBy |-> user,
     oldStatus |-> old, newStatus |-> new, reason |-> ReasonOrDefault(reason)]

\* tx.attendanceRecord.update({ where: { id }, data: { status } })
SetStatus(recs, rid, new) ==
    {IF r.id = rid THEN [r EXCEPT !.status = new] ELSE r : r \in recs}

UpdateAttendanceRecordCall(p, seq) ==
    /\ proc[p].pc = "idle"
    /\ \E user \in UsersFor(seq), rid \in RecordIdsFor(seq),
          new \in EditStatuses, reason \in ReasonsFor(seq) :
          Enter(p, [Idle EXCEPT !.op = "updateAttendanceRecord", !.user = user,
                                !.rid = rid, !.status = new, !.reason = reason],
                "ua_record")
    /\ Begin(seq)
    /\ UNCHANGED <<store, ids>>

\* attendanceRecord.findUnique with its session, and the ownership check
UaRecord(p) ==
    /\ proc[p].pc = "ua_record"
    /\ IF RecordById(proc[p].rid) = {}
       THEN Return(p, "NotFound")
       ELSE LET record  == CHOOSE r \in RecordById(proc[p].rid) : TRUE
                session == CHOOSE s \in SessionById(record.sessionId) : TRUE
            IN  IF session.teacherId # TeacherOf(proc[p].user)
                THEN Return(p, "Forbidden")
                ELSE proc' = [proc EXCEPT ![p] =
                        [@ EXCEPT !.pc = "ua_edit", !.old = record.status,
                                  !.sid = record.sessionId,
                                  !.stu = record.studentId,
                                  !.enr = session.subjectEnrollmentId]]
    /\ UNCHANGED <<store, ids, hist>>

\* faulty variant: the edit event is published from inside the transaction
UaEditPublishesFirst(p) ==
    /\ proc[p].pc = "ua_edit"
    /\ IF RecordById(proc[p].rid) = {} \/ SessionById(proc[p].sid) = {}
       THEN Return(p, "Internal")
       ELSE proc' = [proc EXCEPT ![p] =
               [@ EXCEPT !.pc = "ua_update",
                         !.out = <<AttendanceEditedEvent(proc[p].stu, proc[p].rid,
                                       proc[p].sid, proc[p].old, proc[p].status,
                                       proc[p].user)>>]]
    /\ UNCHANGED <<store, ids, hist>>

\* first statement of the transaction: the audit row
UaEdit(p) ==
    /\ proc[p].pc = "ua_edit"
    /\ IF RecordById(proc[p].rid) = {} \/ SessionById(proc[p].sid) = {}
       THEN /\ Return(p, "Internal")
            /\ UNCHANGED edits
       ELSE /\ edits' = Uncommitted(edits, edits \cup
                   {EditRow(nextEditId, proc[p].rid, proc[p].sid, proc[p].user,
                            proc[p].old, proc[p].status, proc[p].reason)})
            /\ Goto(p, "ua_update")
    /\ UNCHANGED <<sessions, records, ids, hist>>

\* second statement: the status update, then the commit of both
UaUpdate(p) ==
    /\ proc[p].pc = "ua_update"
    /\ LET record == CHOOSE r \in RecordById(proc[p].rid) : TRUE
       IN  ~KeyLockedByOther(p, record.sessionId, record.studentId)
    /\ edits' = edits \cup
          {EditRow(nextEditId, proc[p].rid, proc[p].sid, proc[p].user,
                   proc[p].old, proc[p].status, proc[p].reason)}
    /\ nextEditId' = nextEditId + 1
    /\ records' = SetStatus(records, proc[p].rid, proc[p].status)
    /\ IF proc[p].fan
       THEN proc' = [proc EXCEPT ![p] = [@ EXCEPT !.pc = "ua_emit", !.result = "OK"]]
       ELSE Return(p, "OK")
    /\ log' = Committed(sessions, records')
    /\ UNCHANGED <<sessions, nextSessionId, nextRecordId, snap, calls, enrollments>>

\* ---------------------------------------------------------------- deleteSession
\* faulty variant: the filter of the count inverted
CountOtherSessions(recs, sid) == Cardinality({r \in recs : r.sessionId # sid})

\* tx.attendanceRecord.count({ where: { sessionId } })
RecordCount(recs, sid) == Cardinality({r \in recs : r.sessionId = sid})

\* ON DELETE CASCADE of attendance_records.sessionId, attendance_edits.sessionId
\* and attendance_edits.recordId
CascadeRecords(recs, sid) == {r \in recs : r.sessionId # sid}
CascadeEdits(eds, recs, sid) ==
    {e \in eds : e.sessionId # sid
                 /\ e.recordId \notin {r.id : r \in recs \ CascadeRecords(recs, sid)}}

DeleteSessionCall(p, seq) ==
    /\ proc[p].pc = "idle"
    /\ \E user \in UsersFor(seq), sid \in SessionIdsFor(seq) :
          Enter(p, [Idle EXCEPT !.op = "deleteSession", !.user = user,
                                !.sid = sid], "ds_session")
    /\ Begin(seq)
    /\ UNCHANGED <<store, ids>>

\* attendanceSession.findUnique and the ownership check
DsSession(p) ==
    /\ proc[p].pc = "ds_session"
    /\ IF SessionById(proc[p].sid) = {}
       THEN Return(p, "NotFound")
       ELSE LET session == CHOOSE s \in SessionById(proc[p].sid) : TRUE
            IN  IF session.teacherId # TeacherOf(proc[p].user)
                THEN Return(p, "Forbidden")
                ELSE Goto(p, "ds_count")
    /\ UNCHANGED <<store, ids, hist>>

\* first statement of the transaction: the record count
DsCount(p) ==
    /\ proc[p].pc = "ds_count"
    /\ IF RecordCount(records, proc[p].sid) > 0
       THEN Return(p, "BadRequest")
       ELSE Goto(p, "ds_delete")
    /\ UNCHANGED <<store, ids, hist>>

\* second statement: the delete with its cascades, then the commit
DsDelete(p) ==
    /\ proc[p].pc = "ds_delete"
    /\ ~SessionPinnedByOther(p, proc[p].sid)
    /\ IF SessionById(proc[p].sid) = {}
       THEN /\ Return(p, "Internal")
            /\ UNCHANGED store
       ELSE /\ sessions' = {s \in sessions : s.id # proc[p].sid}
            /\ records' = CascadeRecords(records, proc[p].sid)
            /\ edits' = CascadeEdits(edits, records, proc[p].sid)
            /\ Return(p, "OK")
    /\ log' = Committed(sessions', records')
    /\ UNCHANGED <<ids, snap, calls, enrollments>>

\* ---------------------------------------------------------------- getSessionStudents
\* session.records of the findUnique
SessionRecords(recs, sid) == {r \in recs : r.sessionId = sid}

\* faulty variant: the unmarked view lists every student, whatever the batch
UnmarkedViewOfAllStudents(sid, batch) ==
    {[id |-> 0, sessionId |-> sid, studentId |-> stu, status |-> "PRESENT"] :
        stu \in Students}

\* batch.students.map(...): one entry per student of the batch, status
\* PRESENT, id "" (held as 0, which no stored record has)
UnmarkedView(sid, batch) ==
    {[id |-> 0, sessionId |-> sid, studentId |-> stu, status |-> "PRESENT"] :
        stu \in BatchStudentIds(batch)}

GetSessionStudentsCall(p) ==
    /\ proc[p].pc = "idle"
    /\ \E user \in Users, sid \in SessionIdsFor(TRUE) :
          Enter(p, [Idle EXCEPT !.op = "getSessionStudents", !.user = user,
                                !.sid = sid], "gv_session")
    /\ Begin(TRUE)
    /\ UNCHANGED <<store, ids>>

\* attendanceSession.findUnique with the batch's students and the session's
\* records, the ownership check, and the list returned
GvSession(p) ==
    /\ proc[p].pc = "gv_session"
    /\ IF SessionById(proc[p].sid) = {}
       THEN Return(p, "NotFound")
       ELSE LET session == CHOOSE s \in SessionById(proc[p].sid) : TRUE
                batch   == EnrollmentBatch(session.subjectEnrollmentId)
                recs    == SessionRecords(records, session.id)
            IN  IF session.teacherId # TeacherOf(proc[p].user)
                THEN Return(p, "Forbidden")
                ELSE IF recs # {}
                THEN proc' = [proc EXCEPT ![p] =
                        [@ EXCEPT !.pc = "done", !.result = "OK", !.view = recs]]
                ELSE IF BatchStudentIds(batch) = {}
                THEN Return(p, "BadRequest")
                ELSE proc' = [proc EXCEPT ![p] =
                        [@ EXCEPT !.pc = "done", !.result = "OK",
                                  !.view = UnmarkedView(session.id, batch)]]
    /\ UNCHANGED <<store, ids, hist>>

\* ---------------------------------------------------------------- updateEnrollment
\* teachers.userId
TeacherUser(t) ==
    CASE t = "t1" -> "u1"
      [] t = "t2" -> "u2"
      [] OTHER    -> "none"

\* PUT /enrollments/:enrollmentId by a user with the TEACHER role, with a
\* teacherId in the body
UpdateEnrollmentCall(p) ==
    /\ proc[p].pc = "idle"
    /\ \E user \in Users, enr \in EnrollmentIds \cup {"e0"}, newt \in Teachers \cup {"t0"} :
          proc' = [proc EXCEPT ![p] =
                      [Idle EXCEPT !.op = "updateEnrollment", !.user = user,
                                   !.enr = enr, !.newt = newt, !.pc = "ue_enrollment"]]
    /\ Begin(TRUE)
    /\ UNCHANGED <<store, ids>>

\* getEnrollmentById: the enrollment, and the check that the caller is its teacher
UeEnrollment(p) ==
    /\ proc[p].pc = "ue_enrollment"
    /\ IF proc[p].enr \notin EnrollmentIds
       THEN Return(p, "NotFound")
       ELSE IF TeacherUser(EnrollmentTeacher(proc[p].enr)) # proc[p].user
            THEN Return(p, "Forbidden")
            ELSE Goto(p, "ue_teacher")
    /\ UNCHANGED <<store, ids, hist>>

\* teacher.findUnique for the new teacher
UeTeacher(p) ==
    /\ proc[p].pc = "ue_teacher"
    /\ IF proc[p].newt \notin Teachers
       THEN Return(p, "NotFound")
       ELSE Goto(p, "ue_update")
    /\ UNCHANGED <<store, ids, hist>>

\* subjectEnrollment.update({ data: { teacherId } }): the sessions of the
\* enrollment keep the teacherId they were created with
UeUpdate(p) ==
    /\ proc[p].pc = "ue_update"
    /\ enrollments' = [enrollments EXCEPT ![proc[p].enr] = proc[p].newt]
    /\ Return(p, "OK")
    /\ UNCHANGED <<store, ids, snap, calls, log>>

\* ---------------------------------------------------------------- getStudentAttendanceStats
\* GET /students/:studentId/stats?subjectEnrollmentId=
GetStatsCall(p) ==
    /\ proc[p].pc = "idle"
    /\ calls = 0
    /\ calls' = 1
    /\ \E stu \in Students, enr \in EnrollmentIds \cup {"e0"} :
          proc' = [proc EXCEPT ![p] =
                      [Idle EXCEPT !.op = "getStudentAttendanceStats", !.stu = stu,
                                   !.enr = enr, !.pc = "gs_sessions"]]
    /\ snap' = <<sessions, records, edits>>
    /\ log' = {<<sessions, records>>}
    /\ UNCHANGED <<store, ids, enrollments>>

\* the session ids of the enrollment, and the early return without sessions
GsSessions(p) ==
    /\ proc[p].pc = "gs_sessions"
    /\ LET sids == EnrollmentSessionIds(sessions, proc[p].enr)
       IN  IF sids = {}
           THEN proc' = [proc EXCEPT ![p] =
                   [@ EXCEPT !.pc = "done", !.result = "OK", !.stats = NoSessionsStats]]
           ELSE proc' = [proc EXCEPT ![p] = [@ EXCEPT !.pc = "gs_records", !.seen = sids]]
    /\ UNCHANGED <<store, ids, hist>>

\* the student's records in those sessions, and the DTO
GsRecords(p) ==
    /\ proc[p].pc = "gs_records"
    /\ proc' = [proc EXCEPT ![p] =
          [@ EXCEPT !.pc = "done", !.result = "OK", !.seen = {},
                    !.stats = ComputeStats(Cardinality(proc[p].seen),
                                 StudentRecords(records, proc[p].stu, proc[p].seen))]]
    /\ UNCHANGED <<store, ids, hist>>

\* ---------------------------------------------------------------- getStudentAttendanceSummary
\* users with the STUDENT role; "us9" has no student profile
StudentUsers == {"us1", "us2", "us3", "us9"}

\* student.findUnique({ where: { userId } })
StudentOfUser(user) ==
    CASE user = "us1" -> "s1"
      [] user = "us2" -> "s2"
      [] user = "us3" -> "s3"
      [] OTHER        -> "none"

\* student.batch.subjectEnrollments, in the order the query returns them
EnrollmentOrder == <<"e1", "e2">>
BatchEnrollments(batch) ==
    LET OfBatch(e) == EnrollmentBatch(e) = batch
    IN  SelectSeq(EnrollmentOrder, OfBatch)

\* subjects.reduce((sum, subj) => sum + subj.stats.totalSessions, 0)
RECURSIVE SumSessions(_)
SumSessions(subjects) ==
    IF subjects = <<>> THEN 0
    ELSE Head(subjects).totalSessions + SumSessions(Tail(subjects))

\* subjects.reduce((sum, subj) => sum + present + late + excused, 0)
RECURSIVE SumPresent(_)
SumPresent(subjects) ==
    IF subjects = <<>> THEN 0
    ELSE Attended(Head(subjects).present, Head(subjects).late, Head(subjects).excused)
            + SumPresent(Tail(subjects))

\* the overall figures: averagePercentage is 0 without sessions, the status
\* chain runs on the unrounded average, the rounded one is returned
Overall(subjects) ==
    LET total   == SumSessions(subjects)
        present == SumPresent(subjects)
    IN  [totalSessions |-> total, totalPresent |-> present,
         averagePercentage |-> IF total > 0 THEN Round2(present, total) ELSE 0,
         status |-> IF total > 0 THEN Band(present, total) ELSE Band(0, 1)]

GetSummaryCall(p) ==
    /\ proc[p].pc = "idle"
    /\ \E user \in StudentUsers :
          proc' = [proc EXCEPT ![p] =
                      [Idle EXCEPT !.op = "getStudentAttendanceSummary",
                                   !.user = user, !.pc = "gy_student"]]
    /\ Begin(TRUE)
    /\ UNCHANGED <<store, ids>>

\* the student with the batch and its enrollments; without enrollments the
\* overall figures are those of an empty list
GyStudent(p) ==
    /\ proc[p].pc = "gy_student"
    /\ LET stu == StudentOfUser(proc[p].user)
       IN  IF stu = "none" \/ StudentBatch(stu) = "none"
           THEN Return(p, "NotFound")
           ELSE IF BatchEnrollments(StudentBatch(stu)) = <<>>
           THEN proc' = [proc EXCEPT ![p] =
                   [@ EXCEPT !.pc = "done", !.result = "OK", !.stu = stu,
                             !.batch = StudentBatch(stu),
                             !.overall = Overall(<<>>)]]
           ELSE proc' = [proc EXCEPT ![p] =
                   [@ EXCEPT !.pc = "gy_sessions", !.stu = stu,
                             !.batch = StudentBatch(stu), !.k = 1]]
    /\ UNCHANGED <<store, ids, hist>>

\* the statistics of subject k are in; after the last subject the overall
\* figures are computed and the summary is returned
GyCollect(p, stats) ==
    LET subjects == Append(proc[p].subjects, stats)
    IN  IF proc[p].k = Len(BatchEnrollments(proc[p].batch))
        THEN proc' = [proc EXCEPT ![p] =
                [@ EXCEPT !.pc = "done", !.result = "OK", !.seen = {}, !.k = 0,
                          !.subjects = subjects, !.overall = Overall(subjects)]]
        ELSE proc' = [proc EXCEPT ![p] =
                [@ EXCEPT !.pc = "gy_sessions", !.seen = {}, !.k = @ + 1,
                          !.subjects = subjects]]

\* getStudentAttendanceStats for subject k, first query
GySessions(p) ==
    /\ proc[p].pc = "gy_sessions"
    /\ LET sids == EnrollmentSessionIds(sessions,
                       BatchEnrollments(proc[p].batch)[proc[p].k])
       IN  IF sids = {}
           THEN GyCollect(p, NoSessionsStats)
           ELSE proc' = [proc EXCEPT ![p] = [@ EXCEPT !.pc = "gy_records", !.seen = sids]]
    /\ UNCHANGED <<store, ids, hist>>

\* getStudentAttendanceStats for subject k, second query
GyRecords(p) ==
    /\ proc[p].pc = "gy_records"
    /\ GyCollect(p, ComputeStats(Cardinality(proc[p].seen),
                       StudentRecords(records, proc[p].stu, proc[p].seen)))
    /\ UNCHANGED <<store, ids, hist>>

\* ---------------------------------------------------------------- notification fan-out
\* markAttendance after its transaction: the batch-wide event, the live
\* session status, then the statistics of the first marked student are asked for
MaEmit(p) ==
    /\ proc[p].pc = "ma_emit"
    /\ proc' = [proc EXCEPT ![p] =
          [@ EXCEPT !.pc = "fan_sessions", !.k = 1,
                    !.out = Published(p,
                        <<AttendanceMarkedEvent(proc[p].batch, proc[p].sid,
                                                Len(proc[p].payload)),
                          LiveSessionStatusEvent(proc[p].enr, proc[p].sid,
                                                 proc[p].batch, proc[p].payload)>>)]]
    /\ UNCHANGED <<store, ids, hist>>

\* updateAttendanceRecord after its transaction: the edit event, then the
\* statistics of the edited student are asked for
UaEmit(p) ==
    /\ proc[p].pc = "ua_emit"
    /\ proc' = [proc EXCEPT ![p] =
          [@ EXCEPT !.pc = "fan_sessions", !.k = 1,
                    !.out = Published(p,
                        <<AttendanceEditedEvent(proc[p].stu, proc[p].rid, proc[p].sid,
                                                proc[p].old, proc[p].status,
                                                proc[p].user)>>)]]
    /\ UNCHANGED <<store, ids, hist>>

\* faulty variant: the statistics of the whole batch are recomputed
FanWholeBatch(p) ==
    IF proc[p].op = "markAttendance"
    THEN LET InBatch(x) == StudentBatch(x) = proc[p].batch
         IN  SelectSeq(BatchOrder, InBatch)
    ELSE <<proc[p].stu>>

\* the students whose statistics the request recomputes, in order
FanStudents(p) ==
    IF proc[p].op = "markAttendance"
    THEN MarkedStudents(proc[p].payload, proc[p].batch)
    ELSE <<proc[p].stu>>

\* the statistics of student k are in: its events go out, and the request
\* moves to the next student or returns its success result
FanDeliver(p, stats) ==
    LET stu == FanStudents(p)[proc[p].k]
    IN  IF proc[p].k = Len(FanStudents(p))
        THEN proc' = [proc EXCEPT ![p] =
                [@ EXCEPT !.pc = "done", !.result = "OK", !.batch = "none",
                          !.seen = {}, !.k = 0, !.old = "none", !.stats = stats,
                          !.out = Published(p, StudentEvents(stu, stats))]]
        ELSE proc' = [proc EXCEPT ![p] =
                [@ EXCEPT !.pc = "fan_sessions", !.k = @ + 1, !.seen = {},
                          !.stats = stats,
                          !.out = Published(p, StudentEvents(stu, stats))]]

\* getStudentAttendanceStats inside the fan-out, first query
FanSessions(p) ==
    /\ proc[p].pc = "fan_sessions"
    /\ LET sids == EnrollmentSessionIds(sessions, proc[p].enr)
       IN  IF sids = {}
           THEN FanDeliver(p, NoSessionsStats)
           ELSE proc' = [proc EXCEPT ![p] = [@ EXCEPT !.pc = "fan_records", !.seen = sids]]
    /\ UNCHANGED <<store, ids, hist>>

\* getStudentAttendanceStats inside the fan-out, second query
FanRecords(p) ==
    /\ proc[p].pc = "fan_records"
    /\ FanDeliver(p, ComputeStats(Cardinality(proc[p].seen),
                      StudentRecords(records, FanStudents(p)[proc[p].k], proc[p].seen)))
    /\ UNCHANGED <<store, ids, hist>>

\* faulty variant: no try/catch around the fan-out, the error reaches the caller
FanOutThrows(p) ==
    /\ proc[p].pc \in {"fan_sessions", "fan_records"}
    /\ proc' = [proc EXCEPT ![p] =
          [@ EXCEPT !.pc = "done", !.result = "Internal", !.batch = "none",
                    !.seen = {}, !.k = 0, !.old = "none", !.fault = TRUE]]
    /\ UNCHANGED <<store, ids, hist>>

\* a statistics query of the fan-out throws: the catch around the fan-out
\* logs it, the remaining students are skipped, the request returns its result
FanOutFail(p) ==
    /\ proc[p].pc \in {"fan_sessions", "fan_records"}
    /\ proc' = [proc EXCEPT ![p] =
          [@ EXCEPT !.pc = "done", !.result = "OK", !.batch = "none",
                    !.seen = {}, !.k = 0, !.old = "none", !.fault = TRUE]]
    /\ UNCHANGED <<store, ids, hist>>

\* ---------------------------------------------------------------- failures
\* a statement of an open transaction fails (connection lost, timeout):
\* prisma rolls the transaction back and the request ends with an error
MidTransaction(p) ==
    \/ proc[p].pc = "ma_select" /\ proc[p].i > 1
    \/ proc[p].pc = "ua_update"
    \/ proc[p].pc = "ds_delete"

TxFail(p) ==
    /\ MidTransaction(p)
    /\ proc' = [proc EXCEPT ![p] =
          [@ EXCEPT !.pc = "done", !.result = "Internal", !.batch = "none",
                    !.i = 0, !.found = FALSE, !.buf = <<>>, !.old = "none",
                    !.seen = {}, !.k = 0, !.fault = TRUE]]
    /\ UNCHANGED <<store, ids, hist>>

\* the upsert of p waits for a row lock of q
WaitsFor(p, q) ==
    /\ proc[p].pc = "ma_write"
    /\ proc[p].payload[proc[p].i].studentId \in WritesOn(q, proc[p].sid)

\* two transactions wait for each other's row: the database aborts one
Deadlock(p) ==
    /\ \E q \in Procs \ {p} : WaitsFor(p, q) /\ WaitsFor(q, p)
    /\ Return(p, "Internal")
    /\ UNCHANGED <<store, ids, hist>>

\* the response has been delivered: the request slot is free again
Ack(p) ==
    /\ proc[p].pc = "done"
    /\ proc' = [proc EXCEPT ![p] = Idle]
    /\ snap' = <<{}, {}, {}>>
    /\ log' = IF proc[p].op = "getStudentAttendanceStats" THEN {} ELSE log
    /\ UNCHANGED <<store, ids, calls, enrollments>>

\* ---------------------------------------------------------------- specifications
Step(p) ==
    \/ CsEnrollment(p) \/ CsFind(p) \/ CsCreate(p)
    \/ MaSession(p) \/ MaStudents(p) \/ MaSelect(p) \/ MaWrite(p)
    \/ UaRecord(p) \/ UaEdit(p) \/ UaUpdate(p)
    \/ DsSession(p) \/ DsCount(p) \/ DsDelete(p)

Call(p, seq) ==
    \/ CreateSessionCall(p, seq)
    \/ MarkAttendanceCall(p, seq)
    \/ UpdateAttendanceRecordCall(p, seq)
    \/ DeleteSessionCall(p, seq)

\* concurrent requests, statements of open transactions may fail
Next == \E p \in Procs : Call(p, FALSE) \/ Step(p) \/ TxFail(p) \/ Deadlock(p) \/ Ack(p)

Spec == Init /\ [][Next]_vars

\* concurrent requests on a session that already exists: the tables after
\* one createSession of the owner of e1
RaceInit ==
    /\ sessions = {[id |-> 1, subjectEnrollmentId |-> "e1", teacherId |-> "t1",
                    date |-> TheDate, startTime |-> "09:00:00"]}
    /\ records = {}
    /\ edits = {}
    /\ nextSessionId = 2
    /\ nextRecordId = 1
    /\ nextEditId = 1
    /\ proc = [p \in Procs |-> Idle]
    /\ snap = <<{}, {}, {}>>
    /\ calls = 0
    /\ enrollments = [e \in EnrollmentIds |-> IF e = "e1" THEN "t1" ELSE "t2"]
    /\ log = {}

RaceSpec == RaceInit /\ [][Next]_vars

\* one request at a time, each run to completion before the next one starts
SeqProc == "p1"
SeqNext ==
    \/ Call(SeqProc, TRUE)
    \/ RepeatMark(SeqProc)
    \/ Step(SeqProc)
    \/ Ack(SeqProc)

SeqSpec == Init /\ [][SeqNext]_vars

\* ---------------------------------------------------------------- a term already held
\* The tables after a term of createSession and markAttendance calls by the
\* owner of e1: total sessions of e1 on successive dates, student s1 marked
\* PRESENT, LATE, EXCUSED and ABSENT in that order and unmarked in the rest,
\* student s2 marked ABSENT in the first session, and one session of e2 in
\* which s1 is PRESENT.
TermDates ==
    <<"2025-09-01", "2025-09-02", "2025-09-03", "2025-09-04", "2025-09-05",
      "2025-09-08", "2025-09-09", "2025-09-10", "2025-09-11", "2025-09-12",
      "2025-09-15", "2025-09-16", "2025-09-17", "2025-09-18", "2025-09-19",
      "2025-09-22", "2025-09-23", "2025-09-24", "2025-09-25", "2025-09-26",
      "2025-09-29", "2025-09-30", "2025-10-01", "2025-10-02", "2025-10-03">>

TermStatus(k, present, late, excused, absent) ==
    IF k <= present THEN "PRESENT"
    ELSE IF k <= present + late THEN "LATE"
    ELSE IF k <= present + late + excused THEN "EXCUSED"
    ELSE IF k <= present + late + excused + absent THEN "ABSENT"
    ELSE "none"

TermSessions(total) ==
    {[id |-> k, subjectEnrollmentId |-> "e1", teacherId |-> "t1",
      date |-> TermDates[k], startTime |-> "09:00:00"] : k \in 1..total}
    \cup {[id |-> total + 1, subjectEnrollmentId |-> "e2", teacherId |-> "t2",
            date |-> TermDates[1], startTime |-> "10:00:00"]}

TermRecords(total, present, late, excused, absent) ==
    {[id |-> k, sessionId |-> k, studentId |-> "s1",
      status |-> TermStatus(k, present, late, excused, absent)] :
        k \in 1..(present + late + excused + absent)}
    \cup {[id |-> total + 1, sessionId |-> total + 1, studentId |-> "s1",
            status |-> "PRESENT"]}
    \cup {[id |-> total + 2, sessionId |-> 1, studentId |-> "s2",
            status |-> "ABSENT"] : k \in 1..(IF total > 0 THEN 1 ELSE 0)}

TermInit(maxTotal) ==
    /\ \E total \in 0..maxTotal, present \in 0..maxTotal :
       \E late \in 0..1, excused \in 0..1, absent \in 0..1 :
          /\ present + late + excused + absent <= total
          /\ sessions = TermSessions(total)
          /\ records = TermRecords(total, present, late, excused, absent)
          /\ nextSessionId = total + 2
          /\ nextRecordId = total + 3
    /\ edits = {}
    /\ nextEditId = 1
    /\ proc = [p \in Procs |-> Idle]
    /\ snap = <<{}, {}, {}>>
    /\ calls = 0
    /\ enrollments = [e \in EnrollmentIds |-> IF e = "e1" THEN "t1" ELSE "t2"]
    /\ log = {}

\* one request at a time, enrollments being reassigned between them
OwnNext ==
    \/ SeqNext
    \/ UpdateEnrollmentCall(SeqProc)
    \/ UeEnrollment(SeqProc)
    \/ UeTeacher(SeqProc)
    \/ UeUpdate(SeqProc)

OwnSpec == Init /\ [][OwnNext]_vars

\* one request of any teacher followed through its fan-out, after a term of
\* up to MaxHistory sessions; the socket server is up or not
FanBegin ==
    /\ calls = 0
    /\ calls' = 1
    /\ snap' = <<sessions, records, edits>>
    /\ UNCHANGED <<store, ids, enrollments, log>>

FanCreateSessionCall(p) ==
    /\ proc[p].pc = "idle"
    /\ \E user \in Users, enr \in EnrollmentIds \cup {"e0"}, st \in StartTimes,
          io \in BOOLEAN :
          Enter(p, [Idle EXCEPT !.op = "createSession", !.user = user,
                                !.enr = enr, !.start = st, !.fan = TRUE,
                                !.io = io], "cs_enrollment")
    /\ FanBegin

FanMarkAttendanceCall(p) ==
    /\ proc[p].pc = "idle"
    /\ \E user \in Users, sid \in SessionIdsFor(TRUE), io \in BOOLEAN :
          Enter(p, [Idle EXCEPT !.op = "markAttendance", !.user = user,
                                !.sid = sid, !.seq = TRUE, !.fan = TRUE,
                                !.io = io], "ma_session")
    /\ FanBegin

FanUpdateAttendanceRecordCall(p) ==
    /\ proc[p].pc = "idle"
    /\ \E user \in Users, rid \in RecordIdsFor(TRUE), new \in EditStatuses,
          io \in BOOLEAN :
          Enter(p, [Idle EXCEPT !.op = "updateAttendanceRecord", !.user = user,
                                !.rid = rid, !.status = new, !.fan = TRUE,
                                !.io = io], "ua_record")
    /\ FanBegin

FanInit == TermInit(MaxHistory)

FanNext ==
    \/ FanCreateSessionCall(SeqProc)
    \/ FanMarkAttendanceCall(SeqProc)
    \/ FanUpdateAttendanceRecordCall(SeqProc)
    \/ CsEnrollment(SeqProc) \/ CsFind(SeqProc) \/ CsCreate(SeqProc) \/ CsEmit(SeqProc)
    \/ MaSession(SeqProc) \/ MaStudents(SeqProc) \/ MaSelect(SeqProc)
    \/ MaWrite(SeqProc) \/ MaEmit(SeqProc)
    \/ UaRecord(SeqProc) \/ UaEdit(SeqProc) \/ UaUpdate(SeqProc) \/ UaEmit(SeqProc)
    \/ FanSessions(SeqProc) \/ FanRecords(SeqProc) \/ FanOutFail(SeqProc)
    \/ Ack(SeqProc)

FanSpec == FanInit /\ [][FanNext]_vars

\* statistics read after a term of up to MaxTerm sessions
StatsInit == TermInit(MaxTerm)

StatsNext ==
    \/ GetStatsCall(SeqProc)
    \/ GsSessions(SeqProc)
    \/ GsRecords(SeqProc)
    \/ Ack(SeqProc)

StatsSpec == StatsInit /\ [][StatsNext]_vars

\* the marking view asked for after a term of up to MaxHistory sessions, one
\* more session being that of the enrollment whose batch has no students
ViewInit ==
    /\ \E total \in 0..MaxHistory, present \in 0..MaxHistory :
       \E late \in 0..1, excused \in 0..1, absent \in 0..1 :
          /\ present + late + excused + absent <= total
          /\ sessions = TermSessions(total) \cup
                {[id |-> total + 2, subjectEnrollmentId |-> NewBatchEnrollment,
                  teacherId |-> "t1", date |-> TermDates[1],
                  startTime |-> "10:00:00"]}
          /\ records = TermRecords(total, present, late, excused, absent)
          /\ nextSessionId = total + 3
          /\ nextRecordId = total + 3
    /\ edits = {}
    /\ nextEditId = 1
    /\ proc = [p \in Procs |-> Idle]
    /\ snap = <<{}, {}, {}>>
    /\ calls = 0
    /\ enrollments = [e \in EnrollmentIds |-> IF e = "e1" THEN "t1" ELSE "t2"]
    /\ log = {}

ViewNext ==
    \/ GetSessionStudentsCall(SeqProc)
    \/ GvSession(SeqProc)
    \/ Ack(SeqProc)

ViewSpec == ViewInit /\ [][ViewNext]_vars

\* one statistics request, on a session that already exists, while the
\* owner's createSession, markAttendance, updateAttendanceRecord and
\* deleteSession requests run beside it
Writer == "p2"

ReadNext ==
    \/ GetStatsCall(SeqProc)
    \/ GsSessions(SeqProc)
    \/ GsRecords(SeqProc)
    \/ Call(Writer, FALSE)
    \/ Step(Writer)
    \/ TxFail(Writer)
    \/ \E p \in Procs : Ack(p)

ReadSpec == RaceInit /\ [][ReadNext]_vars

\* the summary asked for at the start of a term, no session held yet, or
\* after up to MaxHistory sessions
SumInit == Init \/ TermInit(MaxHistory)

SumNext ==
    \/ GetSummaryCall(SeqProc)
    \/ GyStudent(SeqProc)
    \/ GySessions(SeqProc)
    \/ GyRecords(SeqProc)
    \/ Ack(SeqProc)

SumSpec == SumInit /\ [][SumNext]_vars

\* ================================================================ claims
SnapSessions == snap[1]
SnapRecords  == snap[2]
SnapEdits    == snap[3]

Done(p, opName) == proc[p].pc = "done" /\ proc[p].op = opName
Stepped(p) == proc'[p] # proc[p]

Triples(recs) == {<<r.sessionId, r.studentId, r.status>> : r \in recs}

\* the status of the last entry of the payload that names the student
FinalStatus(payload, stu) ==
    LET last == CHOOSE k \in 1..Len(payload) :
                    /\ payload[k].studentId = stu
                    /\ \A j \in (k + 1)..Len(payload) : payload[j].studentId # stu
    IN  payload[last].status

UniqueKey(recs) ==
    \A r1, r2 \in recs :
        (r1.sessionId = r2.sessionId /\ r1.studentId = r2.studentId) => r1 = r2

\* C1: at most one AttendanceRecord per (sessionId, studentId) in every state,
\* under any interleaving of the requests; a step that writes a key that
\* already has a row keeps that row (same id) instead of adding a second one.
C1_OneRecordPerKey ==
    [][/\ UniqueKey(records')
       /\ \A r \in records : \A r2 \in records' :
             (r2.sessionId = r.sessionId /\ r2.studentId = r.studentId)
                => r2.id = r.id]_vars

C1_Witness ==
    \E p, q \in Procs :
        /\ p # q
        /\ Done(p, "markAttendance") /\ proc[p].result = "OK"
        /\ Done(q, "markAttendance") /\ proc[q].result = "OK"
        /\ proc[p].sid = proc[q].sid
        /\ \E stu \in PayloadStudents(proc[p].payload) \cap PayloadStudents(proc[q].payload) :
              Cardinality(RecordByKey(records, proc[p].sid, stu)) = 1

\* C2: markAttendance sent a second time with the identical payload succeeds
\* and leaves the (session, student, status) records as the first call left
\* them, one record per submitted student with the final status of the payload.
C2_MarkIdempotent ==
    (Done(SeqProc, "markAttendance") /\ proc[SeqProc].rep)
        => /\ proc[SeqProc].result = "OK"
           /\ Triples(records) = Triples(SnapRecords)
           /\ \A stu \in PayloadStudents(proc[SeqProc].payload) :
                 /\ Cardinality(RecordByKey(records, proc[SeqProc].sid, stu)) = 1
                 /\ \A r \in RecordByKey(records, proc[SeqProc].sid, stu) :
                       r.status = FinalStatus(proc[SeqProc].payload, stu)

C2_Witness ==
    /\ Done(SeqProc, "markAttendance") /\ proc[SeqProc].rep
    /\ Len(proc[SeqProc].payload) = 2
    /\ proc[SeqProc].payload[1].status # proc[SeqProc].payload[2].status

\* C3: a markAttendance payload that names a student outside the session's
\* batch is rejected with BadRequest and leaves the stored records as they
\* were before the call, valid entries before the offending one included.
C3_InvalidStudentRejectsAll ==
    \A s \in SnapSessions :
        (/\ Done(SeqProc, "markAttendance")
         /\ s.id = proc[SeqProc].sid
         /\ s.teacherId = TeacherOf(proc[SeqProc].user)
         /\ \E stu \in PayloadStudents(proc[SeqProc].payload) :
               StudentBatch(stu) # EnrollmentBatch(s.subjectEnrollmentId))
            => /\ proc[SeqProc].result = "BadRequest"
               /\ records = SnapRecords

C3_Witness ==
    /\ Done(SeqProc, "markAttendance")
    /\ proc[SeqProc].result = "BadRequest"
    /\ Len(proc[SeqProc].payload) = 2
    /\ StudentBatch(proc[SeqProc].payload[1].studentId) = "b1"
    /\ StudentBatch(proc[SeqProc].payload[2].studentId) # "b1"
    /\ SnapRecords # {}

\* C4: the writes of one markAttendance call are atomic: the only step of the
\* call that changes the stored records is its successful end, which stores
\* every record of the payload at once; a call that fails changes none.
C4_MarkAtomic ==
    [][\A p \in Procs :
          (proc[p].op = "markAttendance" /\ Stepped(p) /\ records' # records)
             => /\ proc'[p].pc = "done"
                /\ proc'[p].result = "OK"
                /\ \A stu \in PayloadStudents(proc'[p].payload) :
                      \E r \in RecordByKey(records', proc[p].sid, stu) :
                         r.status = FinalStatus(proc'[p].payload, stu)]_vars

C4_Witness ==
    \E p \in Procs :
        /\ proc[p].op = "markAttendance"
        /\ proc[p].pc = "ma_select"
        /\ proc[p].i = 2
        /\ RecordByKey(records, proc[p].sid, proc[p].payload[1].studentId) = {}

\* C5: run one after the other, createSession for an (enrollment, date,
\* startTime) that already has a session fails with BadRequest and creates
\* nothing; by the owning teacher for a free startTime it succeeds and
\* creates exactly one session.
C5_DuplicateSlotRejected ==
    (/\ Done(SeqProc, "createSession")
     /\ proc[SeqProc].enr \in EnrollmentIds
     /\ EnrollmentTeacher(proc[SeqProc].enr) = TeacherOf(proc[SeqProc].user))
        => IF \E s \in SnapSessions :
                 /\ s.subjectEnrollmentId = proc[SeqProc].enr
                 /\ s.date = TheDate
                 /\ s.startTime = proc[SeqProc].start
           THEN proc[SeqProc].result = "BadRequest" /\ sessions = SnapSessions
           ELSE /\ proc[SeqProc].result = "OK"
                /\ SnapSessions \subseteq sessions
                /\ Cardinality(sessions \ SnapSessions) = 1
                /\ \A s \in sessions \ SnapSessions :
                      /\ s.subjectEnrollmentId = proc[SeqProc].enr
                      /\ s.date = TheDate
                      /\ s.startTime = proc[SeqProc].start

C5_Witness ==
    /\ Done(SeqProc, "createSession")
    /\ proc[SeqProc].result = "OK"
    /\ \E s \in SnapSessions :
          /\ s.subjectEnrollmentId = proc[SeqProc].enr
          /\ s.date = TheDate
          /\ s.startTime # proc[SeqProc].start

\* C6: no two AttendanceSession rows share (subjectEnrollmentId, date,
\* startTime), also when two createSession calls for the same slot interleave.
C6_UniqueSessionSlot ==
    \A s1, s2 \in sessions :
        (/\ s1.subjectEnrollmentId = s2.subjectEnrollmentId
         /\ s1.date = s2.date
         /\ s1.startTime = s2.startTime) => s1 = s2

\* C7: deleteSession by the owning teacher fails with BadRequest and leaves
\* the session and its records in place when the session has a record; on a
\* session without records it succeeds and the session is gone.
C7_DeleteGuard ==
    \A s \in SnapSessions :
        (/\ Done(SeqProc, "deleteSession")
         /\ s.id = proc[SeqProc].sid
         /\ s.teacherId = TeacherOf(proc[SeqProc].user))
            => IF \E r \in SnapRecords : r.sessionId = s.id
               THEN /\ proc[SeqProc].result = "BadRequest"
                    /\ sessions = SnapSessions
                    /\ records = SnapRecords
               ELSE /\ proc[SeqProc].result = "OK"
                    /\ SessionById(s.id) = {}
                    /\ sessions = SnapSessions \ {s}

C7_Witness ==
    /\ Done(SeqProc, "deleteSession")
    /\ proc[SeqProc].result = "BadRequest"
    /\ \E r \in records : r.sessionId = proc[SeqProc].sid

\* C8: a markAttendance call and a deleteSession call on the same session
\* never both succeed, in any interleaving.
C8_NoMarkOnDeletedSession ==
    ~ \E p, q \in Procs :
          /\ Done(p, "markAttendance") /\ proc[p].result = "OK"
          /\ Done(q, "deleteSession") /\ proc[q].result = "OK"
          /\ proc[p].sid = proc[q].sid

\* C9: a successful updateAttendanceRecord adds exactly one AttendanceEdit row
\* with the record's previous status as oldStatus, the requested status as
\* newStatus, the caller as editor and the reason (the placeholder when none
\* was given), and the record carries the requested status afterwards.
C9_AuditRow ==
    (Done(SeqProc, "updateAttendanceRecord") /\ proc[SeqProc].result = "OK")
        => /\ SnapEdits \subseteq edits
           /\ Cardinality(edits \ SnapEdits) = 1
           /\ \A e \in edits \ SnapEdits :
                 /\ e.recordId = proc[SeqProc].rid
                 /\ \E r \in SnapRecords : r.id = e.recordId /\ r.status = e.oldStatus
                 /\ e.newStatus = proc[SeqProc].status
                 /\ e.editedBy = proc[SeqProc].user
                 /\ e.reason = IF proc[SeqProc].reason = NoReasonGiven
                               THEN "No reason provided" ELSE proc[SeqProc].reason
           /\ \E r \in records : r.id = proc[SeqProc].rid /\ r.status = proc[SeqProc].status
           /\ {r.id : r \in records} = {r.id : r \in SnapRecords}

C9_Witness ==
    /\ Done(SeqProc, "updateAttendanceRecord")
    /\ proc[SeqProc].result = "OK"
    /\ proc[SeqProc].reason = NoReasonGiven
    /\ \E e \in edits : e.oldStatus = "PRESENT" /\ e.newStatus = "ABSENT"

\* C10: the audit insert and the status update of updateAttendanceRecord
\* reach the tables in one step or not at all: a step of the call adds an
\* AttendanceEdit row or changes the record only if it is the successful end
\* of the call, and then it does both.
C10_EditAndStatusTogether ==
    [][\A p \in Procs :
          (/\ proc[p].op = "updateAttendanceRecord"
           /\ Stepped(p)
           /\ (edits' # edits \/ records' # records))
             => /\ proc'[p].pc = "done"
                /\ proc'[p].result = "OK"
                /\ Cardinality(edits' \ edits) = 1
                /\ \A e \in edits' \ edits :
                      /\ e.recordId = proc[p].rid
                      /\ e.newStatus = proc[p].status
                /\ \E r \in records' : r.id = proc[p].rid /\ r.status = proc[p].status]_vars

C10_Witness ==
    \E p \in Procs :
        /\ proc[p].op = "updateAttendanceRecord"
        /\ proc[p].pc = "ua_update"
        /\ \A e \in edits : e.recordId # proc[p].rid

\* the statistics request that has just been answered, and the tables it read
StatsDone == Done(SeqProc, "getStudentAttendanceStats")
StatsOwnSessions == {x \in sessions : x.subjectEnrollmentId = proc[SeqProc].enr}
StatsOwnRecords(st) ==
    {r \in records : /\ r.studentId = proc[SeqProc].stu
                     /\ r.status = st
                     /\ \E x \in StatsOwnSessions : x.id = r.sessionId}
StatsAttended ==
    Cardinality(StatsOwnRecords("PRESENT")) + Cardinality(StatsOwnRecords("LATE"))
        + Cardinality(StatsOwnRecords("EXCUSED"))

C13_CountsOfOwnEnrollment ==
    StatsDone =>
        LET st == proc[SeqProc].stats
        IN  /\ st.totalSessions = Cardinality(StatsOwnSessions)
            /\ st.present = Cardinality(StatsOwnRecords("PRESENT"))
            /\ st.absent = Cardinality(StatsOwnRecords("ABSENT"))
            /\ st.late = Cardinality(StatsOwnRecords("LATE"))
            /\ st.excused = Cardinality(StatsOwnRecords("EXCUSED"))
            /\ 2 * st.percentage * st.totalSessions
                  <= 20000 * (st.present + st.late + st.excused) + st.totalSessions
            /\ 2 * st.percentage * st.totalSessions
                  > 20000 * (st.present + st.late + st.excused) - st.totalSessions
                     \/ st.totalSessions = 0

\* 10 sessions, 5 present, 1 late, 1 excused, 1 absent, 2 unmarked, and a
\* record of the student in another enrollment's session: 70.00
C13_Witness ==
    /\ StatsDone
    /\ proc[SeqProc].enr = "e1"
    /\ proc[SeqProc].stats.totalSessions = 10
    /\ proc[SeqProc].stats.present = 5
    /\ proc[SeqProc].stats.late = 1
    /\ proc[SeqProc].stats.excused = 1
    /\ proc[SeqProc].stats.absent = 1
    /\ proc[SeqProc].stats.percentage = 7000
    /\ \E r \in records : /\ r.studentId = proc[SeqProc].stu
                           /\ r.sessionId \notin {x.id : x \in StatsOwnSessions}

\* ---- the request followed through its fan-out
FanOutLabels == {"ma_emit", "ua_emit", "fan_sessions", "fan_records"}
Writes(p) == proc[p].op \in {"markAttendance", "updateAttendanceRecord"}
Out(p) == {proc[p].out[k] : k \in 1..Len(proc[p].out)}

\* the students whose record the request wrote
Affected(p) ==
    IF proc[p].op = "markAttendance" THEN PayloadStudents(proc[p].payload)
    ELSE {proc[p].stu}

AlertsTo(p, stu) ==
    {k \in 1..Len(proc[p].out) :
        /\ proc[p].out[k].type = "LOW_ATTENDANCE_ALERT"
        /\ proc[p].out[k].room = <<"user", StudentUser(stu)>>}

\* sessions of the enrollment, and those of them the student attended
TotalOf(enr) == Cardinality({x \in sessions : x.subjectEnrollmentId = enr})
AttendedOf(stu, enr) ==
    Cardinality({r \in records :
        /\ r.studentId = stu
        /\ r.status \in {"PRESENT", "LATE", "EXCUSED"}
        /\ \E x \in sessions : x.id = r.sessionId /\ x.subjectEnrollmentId = enr})
BelowRequired(stu, enr) ==
    TotalOf(enr) > 0 /\ 100 * AttendedOf(stu, enr) < 75 * TotalOf(enr)
BelowCritical(stu, enr) ==
    TotalOf(enr) > 0 /\ 100 * AttendedOf(stu, enr) < 65 * TotalOf(enr)

\* the request has written what it was asked to write
WriteCommitted(p) ==
    CASE proc[p].op = "createSession" ->
            \E x \in sessions \ SnapSessions : x.id = proc[p].sid
      [] proc[p].op = "markAttendance" ->
            \A stu \in PayloadStudents(proc[p].payload) :
               \E r \in RecordByKey(records, proc[p].sid, stu) :
                  r.status = FinalStatus(proc[p].payload, stu)
      [] proc[p].op = "updateAttendanceRecord" ->
            /\ \E e \in edits \ SnapEdits :
                  e.recordId = proc[p].rid /\ e.newStatus = proc[p].status
            /\ \E r \in records : r.id = proc[p].rid /\ r.status = proc[p].status
      [] OTHER -> FALSE

\* C14: every LOW_ATTENDANCE_ALERT carries sessionsNeeded =
\* max(1, ceil((0.75 * totalSessions - attended) / 0.25)), which is the least
\* x >= 1 with (attended + x) / (totalSessions + x) >= 0.75: x more attended
\* sessions reach 75 %, x - 1 do not.
C14_SessionsNeeded ==
    \A stu \in Students : \A k \in AlertsTo(SeqProc, stu) :
        proc[SeqProc].pc = "done" =>
        LET x == proc[SeqProc].out[k].needed
            t == TotalOf(proc[SeqProc].enr)
            a == AttendedOf(stu, proc[SeqProc].enr)
        IN  /\ x = (IF 3 * t - 4 * a >= 1 THEN 3 * t - 4 * a ELSE 1)
            /\ x >= 1
            /\ 100 * (a + x) >= 75 * (t + x)
            /\ 100 * (a + x - 1) < 75 * (t + x - 1)

\* two sessions, one attended: 50 %, two more sessions needed
C14_Witness ==
    /\ proc[SeqProc].pc = "done"
    /\ \E stu \in Students : \E k \in AlertsTo(SeqProc, stu) :
          /\ proc[SeqProc].out[k].needed = 2
          /\ proc[SeqProc].out[k].pct = 5000
          /\ TotalOf(proc[SeqProc].enr) = 2

\* C15: once the write of markAttendance or updateAttendanceRecord has
\* committed, no step of the fan-out, failing or not, changes a table or the
\* result: the rows stay and the call ends with its success result.
C15_FanOutNeverUndoes ==
    [][\A p \in Procs :
          (Writes(p) /\ proc[p].pc \in FanOutLabels /\ Stepped(p))
             => /\ proc[p].result = "OK"
                /\ WriteCommitted(p)
                /\ store' = store
                /\ proc'[p].result = "OK"
                /\ proc'[p].pc \in FanOutLabels \cup {"done"}]_vars

\* a statistics query failed after the first of two marked students
C15_Witness ==
    /\ Done(SeqProc, "markAttendance")
    /\ proc[SeqProc].fault
    /\ proc[SeqProc].result = "OK"
    /\ records # SnapRecords
    /\ \E e \in Out(SeqProc) : e.type = "ATTENDANCE_UPDATED"

\* C16: an event is published by createSession, markAttendance or
\* updateAttendanceRecord only after the call's write has committed, and a
\* call that ends with NotFound, Forbidden or BadRequest has published no
\* event and left the tables as they were.
C16_NoEventBeforeCommit ==
    \A p \in Procs :
        /\ proc[p].out # <<>> => (proc[p].result = "OK" /\ WriteCommitted(p))
        /\ (proc[p].pc = "done" /\ proc[p].result \in {"NotFound", "Forbidden", "BadRequest"})
              => (proc[p].out = <<>> /\ <<sessions, records, edits>> = snap)

C16_Witness ==
    /\ proc[SeqProc].op = "updateAttendanceRecord"
    /\ proc[SeqProc].pc = "fan_sessions"
    /\ Len(proc[SeqProc].out) = 1
    /\ proc[SeqProc].out[1].type = "ATTENDANCE_EDITED"

\* C19: after a successful markAttendance or updateAttendanceRecord whose
\* fan-out did not fail, a student whose record was written has one
\* LOW_ATTENDANCE_ALERT in the personal room exactly when the student's
\* recomputed status is WARNING or CRITICAL, none when it is GOOD, and no
\* other student has one.
C19_AlertIffLow ==
    (/\ proc[SeqProc].pc = "done" /\ Writes(SeqProc)
     /\ proc[SeqProc].result = "OK"
     /\ ~proc[SeqProc].fault /\ proc[SeqProc].io)
        => \A stu \in Students :
              IF stu \in Affected(SeqProc) /\ BelowRequired(stu, proc[SeqProc].enr)
              THEN /\ Cardinality(AlertsTo(SeqProc, stu)) = 1
                   /\ \A k \in AlertsTo(SeqProc, stu) :
                         proc[SeqProc].out[k].status =
                            IF BelowCritical(stu, proc[SeqProc].enr)
                            THEN "CRITICAL" ELSE "WARNING"
              ELSE AlertsTo(SeqProc, stu) = {}

\* of two students marked in one call, one is alerted and the other, at
\* 100 %, is not
C19_Witness ==
    /\ Done(SeqProc, "markAttendance")
    /\ proc[SeqProc].result = "OK"
    /\ ~proc[SeqProc].fault /\ proc[SeqProc].io
    /\ \E a, b \in Affected(SeqProc) :
          /\ AlertsTo(SeqProc, a) # {}
          /\ AlertsTo(SeqProc, b) = {}
          /\ ~BelowRequired(b, proc[SeqProc].enr)

\* C20: whenever a mark or edit leaves a student it wrote with recomputed
\* status WARNING or CRITICAL, a push notification to that student is
\* triggered, and with CRITICAL an email alert is sent as well.
C20_PushAndEmail ==
    (/\ proc[SeqProc].pc = "done" /\ Writes(SeqProc)
     /\ proc[SeqProc].result = "OK"
     /\ ~proc[SeqProc].fault /\ proc[SeqProc].io)
        => \A stu \in Affected(SeqProc) :
              /\ BelowRequired(stu, proc[SeqProc].enr)
                    => \E e \in Out(SeqProc) :
                          e.type = "PUSH_NOTIFICATION" /\ e.room = <<"user", StudentUser(stu)>>
              /\ BelowCritical(stu, proc[SeqProc].enr)
                    => \E e \in Out(SeqProc) :
                          e.type = "EMAIL" /\ e.room = <<"user", StudentUser(stu)>>

\* C18: two concurrent markAttendance calls on the same session that the
\* infrastructure did not fail both succeed; every student either call names
\* then has exactly one record in the session, with the status one of the
\* calls gave it (for a student both name: of the call that committed last).
C18_ConcurrentMarksBothSucceed ==
    \A p, q \in Procs :
        (/\ p # q
         /\ Done(p, "markAttendance") /\ Done(q, "markAttendance")
         /\ proc[p].sid = proc[q].sid
         /\ ~proc[p].fault /\ ~proc[q].fault
         /\ SessionById(proc[p].sid) # {})
            => /\ proc[p].result = "OK"
               /\ proc[q].result = "OK"
               /\ \A stu \in PayloadStudents(proc[p].payload) \cup PayloadStudents(proc[q].payload) :
                     /\ Cardinality(RecordByKey(records, proc[p].sid, stu)) = 1
                     /\ \A r \in RecordByKey(records, proc[p].sid, stu) :
                           \/ /\ stu \in PayloadStudents(proc[p].payload)
                              /\ r.status = FinalStatus(proc[p].payload, stu)
                           \/ /\ stu \in PayloadStudents(proc[q].payload)
                              /\ r.status = FinalStatus(proc[q].payload, stu)

\* C11: the AttendanceEdit ledger is append-only: a row that exists in one
\* state exists unchanged in every later state, whatever createSession,
\* markAttendance, updateAttendanceRecord and deleteSession steps follow.
C11_LedgerAppendOnly == [][edits \subseteq edits']_vars

\* the session a markAttendance, updateAttendanceRecord or deleteSession
\* request is about, as the request found it
TargetSessions(p) ==
    IF proc[p].op = "updateAttendanceRecord"
    THEN {x \in SnapSessions : \E r \in SnapRecords :
                                  r.id = proc[p].rid /\ r.sessionId = x.id}
    ELSE {x \in SnapSessions : x.id = proc[p].sid}

\* C17: markAttendance, updateAttendanceRecord and deleteSession called by a
\* teacher who does not own the session's enrollment at the time of the call,
\* also after the enrollment was reassigned, fail with Forbidden and leave
\* sessions, records and audit rows as they were.
C17_OnlyCurrentOwner ==
    \A x \in TargetSessions(SeqProc) :
        (/\ proc[SeqProc].pc = "done"
         /\ proc[SeqProc].op \in {"markAttendance", "updateAttendanceRecord", "deleteSession"}
         /\ TeacherOf(proc[SeqProc].user) # "none"
         /\ EnrollmentTeacher(x.subjectEnrollmentId) # TeacherOf(proc[SeqProc].user))
            => /\ proc[SeqProc].result = "Forbidden"
               /\ <<sessions, records, edits>> = snap

\* the LIVE_SESSION_STATUS events the request has published
LiveEvents(p) == {e \in Out(p) : e.type = "LIVE_SESSION_STATUS"}

\* C21: the LIVE_SESSION_STATUS event of a successful markAttendance reports
\* the session's cumulative state: totalStudents is the size of the batch,
\* markedCount the number of its students that now have a record in the
\* session, records of earlier calls included, presentCount (PRESENT or LATE)
\* and absentCount the counts over all records of the session.
C21_LiveStatusCumulative ==
    \A e \in LiveEvents(SeqProc) :
        LET inSession == {r \in records : r.sessionId = e.sid}
        IN  /\ e.total = Cardinality(BatchStudentIds(EnrollmentBatch(proc[SeqProc].enr)))
            /\ e.marked = Cardinality({stu \in BatchStudentIds(EnrollmentBatch(proc[SeqProc].enr)) :
                                          RecordByKey(records, e.sid, stu) # {}})
            /\ e.present = Cardinality({r \in inSession : r.status \in {"PRESENT", "LATE"}})
            /\ e.absent = Cardinality({r \in inSession : r.status = "ABSENT"})

\* the records a markAttendance request may touch: those of its session for
\* the students its payload names
InPayload(p, r) ==
    r.sessionId = proc[p].sid /\ r.studentId \in PayloadStudents(proc[p].payload)

\* C22: a successful markAttendance changes only the records of the students
\* named in its payload: the records of the same session for other students,
\* the records of every other session, the sessions and the AttendanceEdit
\* rows are as they were before the call.
C22_MarkFrame ==
    (/\ proc[SeqProc].op = "markAttendance"
     /\ proc[SeqProc].pc \in FanOutLabels \cup {"done"}
     /\ proc[SeqProc].result = "OK")
        => /\ sessions = SnapSessions
           /\ edits = SnapEdits
           /\ {r \in records : ~InPayload(SeqProc, r)}
                 = {r \in SnapRecords : ~InPayload(SeqProc, r)}

\* s1 is marked in a session that holds a record of s2, while s1 has records
\* in other sessions
C22_Witness ==
    /\ Done(SeqProc, "markAttendance")
    /\ proc[SeqProc].result = "OK"
    /\ PayloadStudents(proc[SeqProc].payload) = {"s1"}
    /\ records # SnapRecords
    /\ \E r \in SnapRecords : r.sessionId = proc[SeqProc].sid /\ r.studentId = "s2"
    /\ \E r \in SnapRecords : r.sessionId # proc[SeqProc].sid /\ r.studentId = "s1"

\* the ATTENDANCE_UPDATED events the request has published to the student
UpdatesTo(p, stu) ==
    {k \in 1..Len(proc[p].out) :
        /\ proc[p].out[k].type = "ATTENDANCE_UPDATED"
        /\ proc[p].out[k].room = <<"user", StudentUser(stu)>>}

\* C23: after a successful markAttendance whose fan-out did not fail, every
\* student named in the payload has exactly one ATTENDANCE_UPDATED event in
\* the personal room, carrying the statistics of that student in the
\* session's enrollment as the tables now give them, and no other student
\* has one.
C23_UpdatedOncePerMarked ==
    (/\ Done(SeqProc, "markAttendance")
     /\ proc[SeqProc].result = "OK"
     /\ ~proc[SeqProc].fault /\ proc[SeqProc].io)
        => \A stu \in Students :
              IF stu \in PayloadStudents(proc[SeqProc].payload)
              THEN /\ Cardinality(UpdatesTo(SeqProc, stu)) = 1
                   /\ \A k \in UpdatesTo(SeqProc, stu) :
                         LET st == StudentStats(sessions, records, stu, proc[SeqProc].enr)
                         IN  /\ proc[SeqProc].out[k].pct = st.percentage
                             /\ proc[SeqProc].out[k].status = st.status
                             /\ proc[SeqProc].out[k].total = st.totalSessions
              ELSE UpdatesTo(SeqProc, stu) = {}

\* s1 is named twice in the payload and gets one event; s2, in the same
\* batch and with a record in the session, gets none
C23_Witness ==
    /\ Done(SeqProc, "markAttendance")
    /\ proc[SeqProc].result = "OK"
    /\ ~proc[SeqProc].fault /\ proc[SeqProc].io
    /\ Len(proc[SeqProc].payload) = 2
    /\ PayloadStudents(proc[SeqProc].payload) = {"s1"}
    /\ Cardinality(UpdatesTo(SeqProc, "s1")) = 1
    /\ RecordByKey(records, proc[SeqProc].sid, "s2") # {}
    /\ UpdatesTo(SeqProc, "s2") = {}

\* C24: getSessionStudents by the owning teacher writes nothing and returns
\* the session's stored records when it has at least one; otherwise one
\* synthesized entry with status PRESENT and an empty record id for every
\* student in the batch; and fails with BadRequest when the session has no
\* records and the batch no students.
C24_SessionStudentsView ==
    \A x \in SnapSessions :
        (/\ Done(SeqProc, "getSessionStudents")
         /\ x.id = proc[SeqProc].sid
         /\ x.teacherId = TeacherOf(proc[SeqProc].user))
            => LET stored == {r \in SnapRecords : r.sessionId = x.id}
                   inBatch == {stu \in Students :
                                  StudentBatch(stu) = EnrollmentBatch(x.subjectEnrollmentId)}
                   view == proc[SeqProc].view
               IN  /\ <<sessions, records, edits>> = snap
                   /\ IF stored # {}
                      THEN proc[SeqProc].result = "OK" /\ view = stored
                      ELSE IF inBatch = {}
                      THEN proc[SeqProc].result = "BadRequest" /\ view = {}
                      ELSE /\ proc[SeqProc].result = "OK"
                           /\ {v.studentId : v \in view} = inBatch
                           /\ Cardinality(view) = Cardinality(inBatch)
                           /\ \A v \in view : /\ v.id = 0
                                              /\ v.status = "PRESENT"
                                              /\ v.sessionId = x.id

\* a session without records of a batch of two students, while other
\* sessions hold records
C24_Witness ==
    /\ Done(SeqProc, "getSessionStudents")
    /\ proc[SeqProc].result = "OK"
    /\ Cardinality(proc[SeqProc].view) = 2
    /\ \A v \in proc[SeqProc].view : v.id = 0
    /\ records # {}

\* C25: every step that changes the stored status of a record that existed
\* before the step, made by updateAttendanceRecord or by a re-mark of
\* markAttendance, adds an AttendanceEdit row for that record with that old
\* and new status.
C25_CorrectionAudited ==
    [][\A r \in records : \A r2 \in records' :
          (r2.id = r.id /\ r2.status # r.status)
             => \E e \in edits' \ edits :
                   /\ e.recordId = r.id
                   /\ e.oldStatus = r.status
                   /\ e.newStatus = r2.status]_vars

\* the sessions of the enrollment asked about in which the student has a record
StatsMarkedSessions ==
    {x \in StatsOwnSessions :
        \E r \in records : r.sessionId = x.id /\ r.studentId = proc[SeqProc].stu}

\* the tables with one more session of the enrollment, nobody marked in it
WithUnmarkedSession(enr) ==
    sessions \cup {[id |-> nextSessionId, subjectEnrollmentId |-> enr,
                    teacherId |-> EnrollmentTeacher(enr), date |-> TheDate,
                    startTime |-> "09:00:00"]}

\* C26 (as stated): a session of the enrollment in which the student has no
\* record is left out of numerator and denominator: the percentage is taken
\* over the sessions the student is marked in, and one more unmarked session
\* leaves it unchanged.
C26_UnmarkedSessionExcluded ==
    (StatsDone /\ proc[SeqProc].enr \in EnrollmentIds) =>
        LET st     == proc[SeqProc].stats
            marked == Cardinality(StatsMarkedSessions)
            more   == StudentStats(WithUnmarkedSession(proc[SeqProc].enr), records,
                                   proc[SeqProc].stu, proc[SeqProc].enr)
        IN  /\ IF marked = 0 THEN st.percentage = 0
               ELSE /\ 2 * st.percentage * marked <= 20000 * StatsAttended + marked
                    /\ 2 * st.percentage * marked > 20000 * StatsAttended - marked
            /\ more.percentage = st.percentage

\* C26 (amended): such a session is left out of the numerator but counted in
\* the denominator: totalSessions counts the marked and the unmarked
\* sessions, the percentage is attended / totalSessions, and one more
\* unmarked session leaves the four counts as they are, raises totalSessions
\* by one and gives the percentage attended / (totalSessions + 1), never a
\* higher one.
C26_UnmarkedSessionCounted ==
    (StatsDone /\ proc[SeqProc].enr \in EnrollmentIds) =>
        LET st       == proc[SeqProc].stats
            marked   == Cardinality(StatsMarkedSessions)
            unmarked == Cardinality(StatsOwnSessions \ StatsMarkedSessions)
            total    == marked + unmarked
            more     == StudentStats(WithUnmarkedSession(proc[SeqProc].enr), records,
                                     proc[SeqProc].stu, proc[SeqProc].enr)
        IN  /\ st.totalSessions = total
            /\ st.present + st.absent + st.late + st.excused = marked
            /\ total > 0 =>
                  /\ 2 * st.percentage * total <= 20000 * StatsAttended + total
                  /\ 2 * st.percentage * total > 20000 * StatsAttended - total
            /\ more.totalSessions = total + 1
            /\ <<more.present, more.absent, more.late, more.excused>>
                  = <<st.present, st.absent, st.late, st.excused>>
            /\ 2 * more.percentage * (total + 1) <= 20000 * StatsAttended + (total + 1)
            /\ 2 * more.percentage * (total + 1) > 20000 * StatsAttended - (total + 1)
            /\ more.percentage <= st.percentage

\* three sessions attended and a fourth without a record: 75.00, and 60.00
\* once a fifth, unmarked session exists
C26_Witness ==
    /\ StatsDone
    /\ proc[SeqProc].enr = "e1"
    /\ proc[SeqProc].stats.totalSessions = 4
    /\ proc[SeqProc].stats.present = 3
    /\ Cardinality(StatsMarkedSessions) = 3
    /\ proc[SeqProc].stats.percentage = 7500
    /\ StudentStats(WithUnmarkedSession("e1"), records, proc[SeqProc].stu, "e1").percentage
          = 6000

\* C27: under any interleaving of updateAttendanceRecord calls with each
\* other and with re-marks of the same record, the oldStatus of every
\* AttendanceEdit row is the status the record had when the edit's
\* transaction committed, so that the edits of a record in commit order chain
\* from one written status to the next.
C27_OldStatusIsStored ==
    [][\A e \in edits' \ edits :
          \E r \in records : r.id = e.recordId /\ r.status = e.oldStatus]_vars

\* the statistics a request answered with, and what one committed state gives
Answered(p) == Done(p, "getStudentAttendanceStats")
StatsIn(st, p) == StudentStats(st[1], st[2], proc[p].stu, proc[p].enr)

\* C28: a statistics result computed while createSession, deleteSession,
\* markAttendance and updateAttendanceRecord run beside it is the pure
\* computation on one single committed state of the tables that existed
\* during the request: the session list and the record list, read one after
\* the other, never combine into numbers no committed state had.
C28_StatsOfOneCommittedState ==
    \A p \in Procs :
        Answered(p) => \E st \in log : proc[p].stats = StatsIn(st, p)

\* the four counts fit in the sessions counted and the percentage is one
WithinTotal(st) ==
    /\ st.present + st.absent + st.late + st.excused <= st.totalSessions
    /\ 0 <= st.percentage
    /\ st.percentage <= 10000

\* C29: in every reachable state, for every student and enrollment, the
\* statistics computation gives present + absent + late + excused <=
\* totalSessions and a percentage from 0 to 100, and so does every result a
\* request returns, read beside concurrent writes or not.
C29_CountsWithinTotal ==
    /\ \A stu \in Students : \A enr \in EnrollmentIds :
          WithinTotal(StudentStats(sessions, records, stu, enr))
    /\ \A p \in Procs : Answered(p) => WithinTotal(proc[p].stats)

\* all of one session counted and attended, read while a second session was
\* created and the student marked
C29_Witness ==
    /\ Answered(SeqProc)
    /\ proc[SeqProc].stats.totalSessions = 1
    /\ proc[SeqProc].stats.present = 1
    /\ proc[SeqProc].stats.percentage = 10000
    /\ Cardinality(sessions) = 2
    /\ SnapRecords = {}

\* C30: in getStudentAttendanceSummary the overall status agrees with the
\* per-subject statuses: when every subject of the student's batch has
\* status GOOD, subjects without sessions included, the overall status is
\* GOOD.
C30_OverallAgreesWithSubjects ==
    (/\ Done(SeqProc, "getStudentAttendanceSummary")
     /\ proc[SeqProc].result = "OK"
     /\ \A k \in 1..Len(proc[SeqProc].subjects) :
           proc[SeqProc].subjects[k].status = "GOOD")
        => proc[SeqProc].overall.status = "GOOD"

====
